---- MODULE Spec2Model ----
(***************************************************************************)
(* State-machine model of the dashboard component App (src/src/App.jsx):   *)
(* the settings record and its write-through to localStorage, the          *)
(* Pollinations chat-completion wrapper with its retry loop, the wallpaper *)
(* generator and the weather refresher.                                    *)
(*                                                                         *)
(* A JavaScript object is an ordered list of <<key, value>> pairs, a value *)
(* is a tagged pair (Str / Bool / Undefined), a JSON text is a list of     *)
(* tokens.  Event handlers run to completion; an async function is cut at  *)
(* its awaits.  A handler sees the state of the render it was created in,  *)
(* so an async call carries a snapshot of the state read through its       *)
(* closure.  Handlers are modelled as entry points: the disabled           *)
(* attributes of the markup are not part of the model.                     *)
(***************************************************************************)
EXTENDS Integers, Sequences, FiniteSets, TLC

\* ------------------------------------------------------------------ bounds
\* chat/search calls started in one behaviour
MaxCalls == 2
\* settings edits made through the settings panel in one behaviour
MaxEdits == 1
\* weather refreshes started in one behaviour (the startup one included)
MaxRefresh == 2
\* wallpaper generations started in one behaviour
MaxGens == 2

\* ------------------------------------------------------------ JS values
Str(s) == <<"s", s>>
Bool(b) == <<"b", IF b THEN "true" ELSE "false">>
Undefined == <<"u", "">>

\* JavaScript truthiness of a value: "", false and undefined are falsy
Truthy(v) == /\ v # Undefined
             /\ v # Str("")
             /\ v # Bool(FALSE)

\* obj.k : the value of the last pair with key k, undefined when there is none
RECURSIVE Get(_, _)
Get(obj, k) ==
  IF obj = <<>> THEN Undefined
  ELSE IF obj[Len(obj)][1] = k THEN obj[Len(obj)][2]
  ELSE Get(SubSeq(obj, 1, Len(obj) - 1), k)

HasKey(obj, k) == \E i \in 1..Len(obj) : obj[i][1] = k

\* {...obj, k: v} : an existing key keeps its place, a new key goes last
Spread(obj, k, v) ==
  IF HasKey(obj, k)
  THEN [i \in 1..Len(obj) |-> IF obj[i][1] = k THEN <<k, v>> ELSE obj[i]]
  ELSE Append(obj, <<k, v>>)

\* ------------------------------------------------------------- constants
WALLPAPERS == << "unsplash-mountain-lake", "unsplash-midnight-city",
                 "unsplash-forest-mist", "unsplash-ocean-sunset" >>

DEFAULT_SETTINGS ==
  << <<"userName", Str("Guest")>>,
     <<"userEmail", Str("guest@example.com")>>,
     <<"apiKey", Str("")>>,
     <<"pollinationsApiKey", Str("")>>,
     <<"profilePictureUrl", Str("dicebear-Guest")>>,
     <<"location", Str("Rochester, MN")>>,
     <<"isAutoLocation", Bool(FALSE)>>,
     <<"is24Hour", Bool(FALSE)>>,
     <<"unit", Str("F")>>,
     <<"wallpaper", Str(WALLPAPERS[1])>>,
     <<"aiSearchModel", Str("gemini-search")>> >>

\* ------------------------------------------------------------------ JSON
Punct(c) == <<"p", c>>

\* JSON.stringify of an object: { "k1" : v1 , "k2" : v2 ... }
RECURSIVE Members(_)
Members(obj) ==
  IF obj = <<>> THEN <<>>
  ELSE LET m == << Str(obj[1][1]), Punct(":"), obj[1][2] >>
       IN IF Len(obj) = 1 THEN m
          ELSE m \o << Punct(",") >> \o Members(Tail(obj))

JSONstringify(obj) == << Punct("{") >> \o Members(obj) \o << Punct("}") >>

IsValueToken(t) == t[1] \in {"s", "b"}

\* the members between the braces: ok is FALSE on a syntax error
RECURSIVE ParseMembers(_, _)
ParseMembers(toks, acc) ==
  IF Len(toks) < 3 THEN [ok |-> FALSE, val |-> <<>>]
  ELSE IF ~(toks[1][1] = "s" /\ toks[2] = Punct(":") /\ IsValueToken(toks[3]))
  THEN [ok |-> FALSE, val |-> <<>>]
  ELSE LET acc2 == Spread(acc, toks[1][2], toks[3])
       IN IF Len(toks) = 3 THEN [ok |-> TRUE, val |-> acc2]
          ELSE IF toks[4] # Punct(",") THEN [ok |-> FALSE, val |-> <<>>]
          ELSE ParseMembers(SubSeq(toks, 5, Len(toks)), acc2)

\* JSON.parse: kind "object" with the object, "null" for the literal null,
\* "throw" for a SyntaxError
JSONparse(text) ==
  IF text = << <<"n", "null">> >> THEN [kind |-> "null", val |-> <<>>]
  ELSE IF Len(text) < 2 \/ text[1] # Punct("{") \/ text[Len(text)] # Punct("}")
  THEN [kind |-> "throw", val |-> <<>>]
  ELSE IF Len(text) = 2 THEN [kind |-> "object", val |-> <<>>]
  ELSE LET r == ParseMembers(SubSeq(text, 2, Len(text) - 1), <<>>)
       IN IF r.ok THEN [kind |-> "object", val |-> r.val]
          ELSE [kind |-> "throw", val |-> <<>>]

\* ----------------------------------------------------------------- state
VARIABLES
  phase,                  \* "boot", "mounted", or "crashed" (render threw)
  store,                  \* localStorage['dashboardSettings']
  settings,               \* useState settings
  edits,                  \* settings-panel edits made so far
  aiChatQuery, aiChatResponse, isAIChatting,
  aiSearchQuery, aiSearchResponse, isAISearching,
  calls,                  \* callPollinationsChatAPI invocations past the key check
  wallpaperPrompt, isGeneratingWallpaper, settingsMessage,
  gens,                   \* handleGenerateWallpaper invocations past the checks
  weather, loadingWeather,
  refreshes               \* fetchWeather invocations

settingsVars == << store, settings, edits >>
chatVars == << aiChatQuery, aiChatResponse, isAIChatting,
               aiSearchQuery, aiSearchResponse, isAISearching, calls >>
wallVars == << wallpaperPrompt, isGeneratingWallpaper, settingsMessage, gens >>
weatherVars == << weather, loadingWeather, refreshes >>
vars == << phase, settingsVars, chatVars, wallVars, weatherVars >>

\* --------------------------------------------------------- localStorage
Absent == [present |-> FALSE, text |-> <<>>]
Stored(text) == [present |-> TRUE, text |-> text]

ConfiguredSettings ==
  Spread(Spread(DEFAULT_SETTINGS, "apiKey", Str("owm")),
         "pollinationsApiKey", Str("pk"))

\* what a previous session, or anything else writing the key, may have left
StoredValues ==
  { Absent,
    Stored(<<>>),
    Stored(<< Punct("{"), Str("userName") >>),
    Stored(<< <<"n", "null">> >>),
    Stored(JSONstringify(DEFAULT_SETTINGS)),
    Stored(JSONstringify(ConfiguredSettings)),
    Stored(JSONstringify(<< <<"unit", Str("C")>>,
                            <<"wallpaper", Str(WALLPAPERS[2])>> >>)),
    Stored(JSONstringify(Spread(DEFAULT_SETTINGS, "wallpaper", Str("")))) }

\* --------------------------------------------------------------- weather
\* temperatures are carried in tenths of a degree until Math.round
Round10(t) == (t + 5) \div 10

Temp(n) == [num |-> TRUE, n |-> n]
NoTemp == [num |-> FALSE, n |-> 0]

\* mutant: the two mock temperatures are swapped
MockSnapshotSwapped(unit) ==
  [temp |-> Temp(IF unit = Str("F") THEN 22 ELSE 72), condition |-> "Clear Sky",
   location |-> "Rochester, MN (Mock)", icon |-> "01d", humidity |-> 45, wind |-> 12]

MockSnapshot(unit) ==
  [temp |-> Temp(IF unit = Str("F") THEN 72 ELSE 22), condition |-> "Clear Sky",
   location |-> "Rochester, MN (Mock)", icon |-> "01d", humidity |-> 45, wind |-> 12]

ErrorSnapshot ==
  [temp |-> NoTemp, condition |-> "API Error", location |-> "Check Key",
   icon |-> "unknown", humidity |-> 0, wind |-> 0]

LiveSnapshot(data) ==
  [temp |-> Temp(Round10(data.temp10)), condition |-> data.description,
   location |-> data.name, icon |-> data.icon, humidity |-> data.humidity,
   wind |-> data.wind]

\* the fields the weather effect depends on
WeatherDeps(obj) == << Get(obj, "location"), Get(obj, "apiKey"),
                       Get(obj, "unit"), Get(obj, "isAutoLocation") >>

\* a fetchWeather invocation up to its first suspension, reading obj through
\* its closure
NewRefresh(obj) ==
  [apiKey |-> Get(obj, "apiKey"), unit |-> Get(obj, "unit"),
   location |-> Get(obj, "location"), auto |-> Get(obj, "isAutoLocation"),
   pc |-> IF ~Truthy(Get(obj, "apiKey")) THEN "timer"
          ELSE IF Truthy(Get(obj, "isAutoLocation")) THEN "geo" ELSE "http",
   geoRequests |-> IF Truthy(Get(obj, "apiKey")) /\ Truthy(Get(obj, "isAutoLocation"))
                   THEN 1 ELSE 0,
   requests |-> IF Truthy(Get(obj, "apiKey")) /\ ~Truthy(Get(obj, "isAutoLocation"))
                THEN 1 ELSE 0,
   query |-> IF Truthy(Get(obj, "isAutoLocation")) THEN "" ELSE "q",
   met |-> "", result |-> <<>>]

fetchWeather(obj) ==
  /\ Len(refreshes) < MaxRefresh
  /\ loadingWeather' = TRUE
  /\ refreshes' = Append(refreshes, NewRefresh(obj))
  /\ UNCHANGED weather

\* ------------------------------------------------------ settings effects
\* mutant: the record is written only when a weather field changed
PersistEffectOnDeps(obj) ==
  store' = IF WeatherDeps(obj) # WeatherDeps(settings)
           THEN Stored(JSONstringify(obj)) ELSE store

\* the effect on [settings]: write the record through to localStorage
PersistEffect(obj) == store' = Stored(JSONstringify(obj))

\* mutant: the weather effect depends on the whole record
WeatherEffectOnSettings(old, new) ==
  IF new # old
  THEN fetchWeather(new)
  ELSE UNCHANGED weatherVars

\* the effect on [location, apiKey, unit, isAutoLocation]
WeatherEffect(old, new) ==
  IF WeatherDeps(new) # WeatherDeps(old)
  THEN fetchWeather(new)
  ELSE UNCHANGED weatherVars

\* setSettings(obj) followed by the render it causes and that render's effects
setSettings(obj) ==
  /\ settings' = obj
  /\ PersistEffect(obj)
  /\ WeatherEffect(settings, obj)

\* --------------------------------------------------------------- startup
LoadSettings(saved) ==
  IF saved.present /\ saved.text # <<>>
  THEN JSONparse(saved.text)
  ELSE [kind |-> "object", val |-> DEFAULT_SETTINGS]

\* mounting App: the useState initializers, the first render, the mount effects
Startup ==
  /\ phase = "boot"
  /\ LET loaded == LoadSettings(store)
     IN IF loaded.kind = "object"
        THEN /\ phase' = "mounted"
             /\ settings' = loaded.val
             /\ PersistEffect(loaded.val)
             /\ fetchWeather(loaded.val)
             /\ UNCHANGED << edits, chatVars, wallVars >>
        ELSE /\ phase' = "crashed"
             /\ UNCHANGED << settingsVars, chatVars, wallVars, weatherVars >>

\* ------------------------------------------------------- weather steps
WeatherData ==
  { [temp10 |-> 224, description |-> "light rain", name |-> "Tokyo",
     icon |-> "10d", humidity |-> 80, wind |-> 3],
    [temp10 |-> 725, description |-> "clear sky", name |-> "Rochester",
     icon |-> "01d", humidity |-> 40, wind |-> 7] }

\* what the weather request can come to: a rejected fetch, a non-success
\* status, a body that is no JSON or lacks the fields read, or the payload
WeatherResponses ==
  { [kind |-> k, data |-> CHOOSE d \in WeatherData : d.temp10 = 224] :
      k \in {"reject", "status", "badbody"} }
  \cup { [kind |-> "ok", data |-> d] : d \in WeatherData }

\* mutant: the loading flag is cleared on the success path only
FinishRefreshInTry(i, met, snapshot) ==
  /\ weather' = << snapshot >>
  /\ loadingWeather' = IF snapshot = ErrorSnapshot THEN loadingWeather ELSE FALSE
  /\ refreshes' = [refreshes EXCEPT ![i].pc = "done", ![i].met = met,
                                    ![i].result = << snapshot >>]

\* setWeather(snapshot); setLoadingWeather(false).  met records what the
\* refresh ran into: "timer", "denied", or the kind of the HTTP response
FinishRefresh(i, met, snapshot) ==
  /\ weather' = << snapshot >>
  /\ loadingWeather' = FALSE
  /\ refreshes' = [refreshes EXCEPT ![i].pc = "done", ![i].met = met,
                                    ![i].result = << snapshot >>]

\* the 800 ms timer of the mock branch fires; timers of one delay fire in the
\* order they were set
WeatherTimer(i) ==
  /\ phase = "mounted"
  /\ i \in 1..Len(refreshes)
  /\ refreshes[i].pc = "timer"
  /\ \A j \in 1..(i - 1) : refreshes[j].pc # "timer"
  /\ FinishRefresh(i, "timer", MockSnapshot(refreshes[i].unit))
  /\ UNCHANGED << phase, settingsVars, chatVars, wallVars >>

\* getCurrentPosition calls resolve or reject
GeoSettles(i, granted) ==
  /\ phase = "mounted"
  /\ i \in 1..Len(refreshes)
  /\ refreshes[i].pc = "geo"
  /\ IF granted
     THEN /\ refreshes' = [refreshes EXCEPT ![i].pc = "http", ![i].query = "latlon",
                                            ![i].requests = @ + 1]
          /\ UNCHANGED << weather, loadingWeather >>
     ELSE FinishRefresh(i, "denied", ErrorSnapshot)
  /\ UNCHANGED << phase, settingsVars, chatVars, wallVars >>

\* the weather request settles; its body is read
WeatherHttpSettles(i, r) ==
  /\ phase = "mounted"
  /\ i \in 1..Len(refreshes)
  /\ refreshes[i].pc = "http"
  /\ r \in WeatherResponses
  /\ FinishRefresh(i, r.kind,
                   IF r.kind = "ok" THEN LiveSnapshot(r.data) ELSE ErrorSnapshot)
  /\ UNCHANGED << phase, settingsVars, chatVars, wallVars >>

\* -------------------------------------------------------- settings panel
EditableKeys == { "userName", "profilePictureUrl", "apiKey", "pollinationsApiKey",
                  "unit", "isAutoLocation", "location", "is24Hour", "aiSearchModel" }

\* the values an edit of field k can write
EditValues(k) ==
  CASE k = "userName" -> { Str("Guest"), Str("Ann") }
    [] k = "profilePictureUrl" -> { Str(""), Str("pic-url") }
    [] k = "apiKey" -> { Str(""), Str("owm") }
    [] k = "pollinationsApiKey" -> { Str(""), Str("pk") }
    [] k = "unit" -> { Str("C"), Str("F") }
    [] k = "isAutoLocation" -> { Bool(TRUE), Bool(FALSE) }
    [] k = "location" -> { Str("Rochester, MN"), Str("Tokyo") }
    [] k = "is24Hour" -> { Bool(~Truthy(Get(settings, "is24Hour"))) }
    [] k = "aiSearchModel" -> { Str("gemini-search"), Str("perplexity-fast") }

\* an onChange / onClick of the settings panel: setSettings({...settings, k: v})
EditSetting(k, v) ==
  /\ phase = "mounted"
  /\ edits < MaxEdits
  /\ k \in EditableKeys
  /\ v \in EditValues(k)
  /\ setSettings(Spread(settings, k, v))
  /\ edits' = edits + 1
  /\ UNCHANGED << phase, chatVars, wallVars >>

\* a click on preset i of the wallpaper grid
SelectPreset(i) ==
  /\ phase = "mounted"
  /\ edits < MaxEdits
  /\ i \in 1..Len(WALLPAPERS)
  /\ setSettings(Spread(settings, "wallpaper", Str(WALLPAPERS[i])))
  /\ settingsMessage' = << "Preset wallpaper applied." >>
  /\ edits' = edits + 1
  /\ UNCHANGED << phase, chatVars, wallpaperPrompt, isGeneratingWallpaper, gens >>

\* ----------------------------------------------------------------- text
\* a prompt is a list of characters; String.prototype.trim
IsSpace(ch) == ch = " "

RECURSIVE TrimStart(_)
TrimStart(str) ==
  IF str # <<>> /\ IsSpace(Head(str)) THEN TrimStart(Tail(str)) ELSE str

RECURSIVE TrimEnd(_)
TrimEnd(str) ==
  IF str # <<>> /\ IsSpace(str[Len(str)])
  THEN TrimEnd(SubSeq(str, 1, Len(str) - 1)) ELSE str

Trim(str) == TrimEnd(TrimStart(str))

\* what the user may type into a prompt field
Prompts == { << " " >>, << " ", "h" >> }

\* ---------------------------------------------------- wallpaper generator
ImageResponses ==
  { [kind |-> "reject", status |-> "", url |-> Undefined],
    [kind |-> "status", status |-> "500", url |-> Undefined],
    [kind |-> "badbody", status |-> "200", url |-> Undefined],
    [kind |-> "ok", status |-> "200", url |-> Undefined],
    [kind |-> "ok", status |-> "200", url |-> Str("")],
    [kind |-> "ok", status |-> "200", url |-> Str("generated-url")] }

\* error.message of what the try block throws for response r
ImageErrorMessage(r) ==
  CASE r.kind = "reject" -> << "Failed to fetch" >>
    [] r.kind = "status" -> << "Status: ", r.status >>
    [] r.kind = "badbody" -> << "Unexpected token" >>
    [] OTHER -> << "No image URL returned." >>

TypeWallpaperPrompt(p) ==
  /\ phase = "mounted"
  /\ p \in Prompts
  /\ wallpaperPrompt' = p
  /\ UNCHANGED << phase, settingsVars, chatVars, weatherVars,
                  isGeneratingWallpaper, settingsMessage, gens >>

\* mutant: the credential is checked before the prompt
handleGenerateWallpaperKeyFirst ==
  /\ phase = "mounted"
  /\ IF ~Truthy(Get(settings, "pollinationsApiKey"))
     THEN /\ settingsMessage' = << "Pollinations API Key is required to generate images." >>
          /\ UNCHANGED << isGeneratingWallpaper, gens >>
     ELSE IF Trim(wallpaperPrompt) = <<>>
     THEN /\ settingsMessage' = << "Please enter a description for the wallpaper." >>
          /\ UNCHANGED << isGeneratingWallpaper, gens >>
     ELSE /\ Len(gens) < MaxGens
          /\ isGeneratingWallpaper' = TRUE
          /\ settingsMessage' = << "Generating image... this may take up to a minute." >>
          /\ gens' = Append(gens, [pc |-> "http", requests |-> 1,
                                   outcome |-> ""])
  /\ UNCHANGED << phase, settingsVars, chatVars, weatherVars, wallpaperPrompt >>

handleGenerateWallpaper ==
  /\ phase = "mounted"
  /\ IF Trim(wallpaperPrompt) = <<>>
     THEN /\ settingsMessage' = << "Please enter a description for the wallpaper." >>
          /\ UNCHANGED << isGeneratingWallpaper, gens >>
     ELSE IF ~Truthy(Get(settings, "pollinationsApiKey"))
     THEN /\ settingsMessage' = << "Pollinations API Key is required to generate images." >>
          /\ UNCHANGED << isGeneratingWallpaper, gens >>
     ELSE /\ Len(gens) < MaxGens
          /\ isGeneratingWallpaper' = TRUE
          /\ settingsMessage' = << "Generating image... this may take up to a minute." >>
          /\ gens' = Append(gens, [pc |-> "http", requests |-> 1,
                                   outcome |-> ""])
  /\ UNCHANGED << phase, settingsVars, chatVars, weatherVars, wallpaperPrompt >>

\* mutant: a failed generation leaves the wallpaper as it is
GenSettlesKeep(g, r) ==
  /\ phase = "mounted"
  /\ g \in 1..Len(gens)
  /\ gens[g].pc = "http"
  /\ r \in ImageResponses
  /\ IF r.kind = "ok" /\ Truthy(r.url)
     THEN /\ setSettings(Spread(settings, "wallpaper", r.url))
          /\ settingsMessage' = << "Wallpaper successfully generated and applied!" >>
          /\ wallpaperPrompt' = <<>>
          /\ gens' = [gens EXCEPT ![g].pc = "done", ![g].outcome = "applied"]
     ELSE /\ settingsMessage' = << "Image generation error. Check prompt and key. (" >>
                                \o ImageErrorMessage(r) \o << ")" >>
          /\ setSettings(settings)
          /\ UNCHANGED wallpaperPrompt
          /\ gens' = [gens EXCEPT ![g].pc = "done", ![g].outcome = "reverted"]
  /\ isGeneratingWallpaper' = FALSE
  /\ UNCHANGED << phase, edits, chatVars >>

\* mutant: the busy flag is cleared at the end of the try block
GenSettlesNoFinally(g, r) ==
  /\ phase = "mounted"
  /\ g \in 1..Len(gens)
  /\ gens[g].pc = "http"
  /\ r \in ImageResponses
  /\ IF r.kind = "ok" /\ Truthy(r.url)
     THEN /\ setSettings(Spread(settings, "wallpaper", r.url))
          /\ settingsMessage' = << "Wallpaper successfully generated and applied!" >>
          /\ wallpaperPrompt' = <<>>
          /\ isGeneratingWallpaper' = FALSE
          /\ gens' = [gens EXCEPT ![g].pc = "done", ![g].outcome = "applied"]
     ELSE /\ settingsMessage' = << "Image generation error. Check prompt and key. (" >>
                                \o ImageErrorMessage(r) \o << ")" >>
          /\ setSettings(Spread(settings, "wallpaper", Str(WALLPAPERS[1])))
          /\ UNCHANGED << wallpaperPrompt, isGeneratingWallpaper >>
          /\ gens' = [gens EXCEPT ![g].pc = "done", ![g].outcome = "reverted"]
  /\ UNCHANGED << phase, edits, chatVars >>

\* the image request settles; its body is read
GenSettles(g, r) ==
  /\ phase = "mounted"
  /\ g \in 1..Len(gens)
  /\ gens[g].pc = "http"
  /\ r \in ImageResponses
  /\ IF r.kind = "ok" /\ Truthy(r.url)
     THEN /\ setSettings(Spread(settings, "wallpaper", r.url))
          /\ settingsMessage' = << "Wallpaper successfully generated and applied!" >>
          /\ wallpaperPrompt' = <<>>
          /\ gens' = [gens EXCEPT ![g].pc = "done", ![g].outcome = "applied"]
     ELSE /\ settingsMessage' = << "Image generation error. Check prompt and key. (" >>
                                \o ImageErrorMessage(r) \o << ")" >>
          /\ setSettings(Spread(settings, "wallpaper", Str(WALLPAPERS[1])))
          /\ UNCHANGED wallpaperPrompt
          /\ gens' = [gens EXCEPT ![g].pc = "done", ![g].outcome = "reverted"]
  /\ isGeneratingWallpaper' = FALSE
  /\ UNCHANGED << phase, edits, chatVars >>

\* ------------------------------------------------ chat-completion wrapper
\* mutant: one attempt fewer
maxRetriesShort == 1 + 1

maxRetries == 3

\* Math.random() * 1000, in milliseconds: the two ends of [0, 1000)
Jitters == { 0, 999 }

RECURSIVE Pow2(_)
Pow2(n) == IF n = 0 THEN 1 ELSE 2 * Pow2(n - 1)

\* mutant: the delay does not grow with the attempt
BackoffDelayFlat(attempt, jitter) == 1000 + jitter

\* Math.pow(2, attempt) * 1000 + Math.random() * 1000
BackoffDelay(attempt, jitter) == Pow2(attempt) * 1000 + jitter

\* what one request of the chat endpoint can come to.  status "0" is a fetch
\* that rejects; body says what res.json() finds in a 200 response
ChatResponses ==
  { [status |-> "0", body |-> ""], [status |-> "401", body |-> ""],
    [status |-> "429", body |-> ""], [status |-> "500", body |-> ""],
    [status |-> "200", body |-> "content"], [status |-> "200", body |-> "nocontent"],
    [status |-> "200", body |-> "badjson"] }

ResOk(r) == r.status = "200"

\* data.choices?.[0]?.message?.content of the body answering prompt; the empty
\* text stands for the falsy values (undefined, the empty string)
Content(r, prompt) ==
  IF r.body = "content" THEN << "answer to: " >> \o prompt ELSE <<>>

KeyNotSetText == << "Error: Pollinations API Key not set in settings." >>
NoResponseText == << "No response received from AI." >>
AuthMessage == << "Authentication failed. Check your API key." >>
StatusMessage(status) == << "API call failed with status: ", status >>
NetworkMessage == << "Failed to fetch" >>
SyntaxMessage == << "Unexpected token" >>

\* `AI Error: ${error.message}`
ErrText(message) == << "AI Error: " >> \o message

\* data.choices?.[0]?.message?.content || "No response received from AI."
ResponseText(r, prompt) ==
  IF Content(r, prompt) # <<>> THEN Content(r, prompt) ELSE NoResponseText

SetResponse(isSearch, text) ==
  IF isSearch
  THEN aiSearchResponse' = text /\ UNCHANGED aiChatResponse
  ELSE aiChatResponse' = text /\ UNCHANGED aiSearchResponse

SetBusy(isSearch, b) ==
  IF isSearch
  THEN isAISearching' = b /\ UNCHANGED isAIChatting
  ELSE isAIChatting' = b /\ UNCHANGED isAISearching

\* mutant: the finally block clears the flag on every exit
FinallyClearsAlways(call) ==
  \/ call.attempt <= maxRetries - 1
  \/ (~call.capChatting /\ ~call.capSearching)

\* the condition of the finally block, on the isAIChatting and isAISearching the
\* call's closure holds
FinallyClears(call) ==
  \/ call.attempt = maxRetries - 1
  \/ (~call.capChatting /\ ~call.capSearching)

RunFinally(call) ==
  IF FinallyClears(call)
  THEN SetBusy(call.isSearch, FALSE)
  ELSE UNCHANGED << isAIChatting, isAISearching >>

\* mutant: the busy flag is raised before the key is looked at
callPollinationsChatAPIBusyFirst(prompt, model, isSearch, placeholder) ==
  IF ~Truthy(Get(settings, "pollinationsApiKey"))
  THEN /\ SetResponse(isSearch, KeyNotSetText)
       /\ SetBusy(isSearch, TRUE)
       /\ UNCHANGED calls
  ELSE /\ Len(calls) < MaxCalls
       /\ SetResponse(isSearch, placeholder)
       /\ SetBusy(isSearch, TRUE)
       /\ calls' = Append(calls,
            [isSearch |-> isSearch, model |-> model, prompt |-> prompt,
             key |-> Get(settings, "pollinationsApiKey"),
             capChatting |-> isAIChatting, capSearching |-> isAISearching,
             attempt |-> 0, pc |-> "fetch", requests |-> 1,
             seen |-> <<>>, delay |-> 0, published |-> <<>>])

\* callPollinationsChatAPI up to its first await; placeholder is the text the
\* submit handler set just before
callPollinationsChatAPI(prompt, model, isSearch, placeholder) ==
  IF ~Truthy(Get(settings, "pollinationsApiKey"))
  THEN /\ SetResponse(isSearch, KeyNotSetText)
       /\ UNCHANGED << isAIChatting, isAISearching, calls >>
  ELSE /\ Len(calls) < MaxCalls
       /\ SetResponse(isSearch, placeholder)
       /\ SetBusy(isSearch, TRUE)
       /\ calls' = Append(calls,
            [isSearch |-> isSearch, model |-> model, prompt |-> prompt,
             key |-> Get(settings, "pollinationsApiKey"),
             capChatting |-> isAIChatting, capSearching |-> isAISearching,
             attempt |-> 0, pc |-> "fetch", requests |-> 1,
             seen |-> <<>>, delay |-> 0, published |-> <<>>])

TypeChat(p) ==
  /\ phase = "mounted"
  /\ aiChatQuery' = p
  /\ UNCHANGED << phase, settingsVars, wallVars, weatherVars, aiChatResponse,
                  isAIChatting, aiSearchQuery, aiSearchResponse, isAISearching, calls >>

TypeSearch(p) ==
  /\ phase = "mounted"
  /\ p \in Prompts
  /\ aiSearchQuery' = p
  /\ UNCHANGED << phase, settingsVars, wallVars, weatherVars, aiChatResponse,
                  isAIChatting, aiChatQuery, aiSearchResponse, isAISearching, calls >>

\* mutant: the query is tested without trim()
handleAIChatSubmitNoTrim ==
  /\ phase = "mounted"
  /\ IF aiChatQuery = <<>>
     THEN UNCHANGED chatVars
     ELSE /\ callPollinationsChatAPI(aiChatQuery, Str("openai"), FALSE,
                                     << "Thinking..." >>)
          /\ aiChatQuery' = <<>>
          /\ UNCHANGED aiSearchQuery
  /\ UNCHANGED << phase, settingsVars, wallVars, weatherVars >>

handleAIChatSubmit ==
  /\ phase = "mounted"
  /\ IF Trim(aiChatQuery) = <<>>
     THEN UNCHANGED chatVars
     ELSE /\ callPollinationsChatAPI(aiChatQuery, Str("openai"), FALSE,
                                     << "Thinking..." >>)
          /\ aiChatQuery' = <<>>
          /\ UNCHANGED aiSearchQuery
  /\ UNCHANGED << phase, settingsVars, wallVars, weatherVars >>

handleAISearchSubmit ==
  /\ phase = "mounted"
  /\ IF Trim(aiSearchQuery) = <<>>
     THEN UNCHANGED chatVars
     ELSE /\ callPollinationsChatAPI(aiSearchQuery, Get(settings, "aiSearchModel"),
                                     TRUE, << "Searching the web..." >>)
          /\ aiSearchQuery' = <<>>
          /\ UNCHANGED aiChatQuery
  /\ UNCHANGED << phase, settingsVars, wallVars, weatherVars >>

\* mutant: the text of a call is dropped when a call of the same widget that
\* was started later has already returned
FinishUnlessStale(c, r, text) ==
  /\ IF \E d \in (c + 1)..Len(calls) :
          calls[d].isSearch = calls[c].isSearch /\ calls[d].pc = "done"
     THEN UNCHANGED << aiChatResponse, aiSearchResponse >>
     ELSE SetResponse(calls[c].isSearch, text)
  /\ RunFinally(calls[c])
  /\ calls' = [calls EXCEPT ![c].pc = "done", ![c].seen = Append(@, r),
                            ![c].published = Append(@, text)]

\* the call returns text: it is published, the finally block runs
Finish(c, r, text) ==
  /\ SetResponse(calls[c].isSearch, text)
  /\ RunFinally(calls[c])
  /\ calls' = [calls EXCEPT ![c].pc = "done", ![c].seen = Append(@, r),
                            ![c].published = Append(@, text)]

\* mutant: 401 is not told apart from the other statuses
ClassifyAuthAsFail(r, attempt) ==
  IF r.status = "0" THEN "reject"
  ELSE IF ResOk(r) THEN "ok"
  ELSE IF r.status = "429" /\ attempt < maxRetries - 1 THEN "retry"
  ELSE "fail"

\* mutant: every non-success status but 401 is retried
ClassifyRetryAll(r, attempt) ==
  IF r.status = "0" THEN "reject"
  ELSE IF ResOk(r) THEN "ok"
  ELSE IF r.status = "401" THEN "auth"
  ELSE IF attempt < maxRetries - 1 THEN "retry"
  ELSE "fail"

\* mutant: the last attempt backs off too, and the loop runs out
ClassifyOffByOne(r, attempt) ==
  IF r.status = "0" THEN "reject"
  ELSE IF ResOk(r) THEN "ok"
  ELSE IF r.status = "401" THEN "auth"
  ELSE IF r.status = "429" /\ attempt < maxRetries THEN "retry"
  ELSE "fail"

\* what the try block makes of response r to attempt number attempt:
\* "reject"  fetch threw
\* "ok"      res.ok
\* "auth"    status 401
\* "retry"   status 429 with attempts left
\* "fail"    any other status, and 429 on the last attempt
Classify(r, attempt) ==
  IF r.status = "0" THEN "reject"
  ELSE IF ResOk(r) THEN "ok"
  ELSE IF r.status = "401" THEN "auth"
  ELSE IF r.status = "429" /\ attempt < maxRetries - 1 THEN "retry"
  ELSE "fail"

\* the text the call returns for a response that ends it
Outcome(r, attempt, prompt) ==
  CASE Classify(r, attempt) = "reject" -> ErrText(NetworkMessage)
    [] Classify(r, attempt) = "ok" ->
         IF r.body = "badjson" THEN ErrText(SyntaxMessage) ELSE ResponseText(r, prompt)
    [] Classify(r, attempt) = "auth" -> ErrText(AuthMessage)
    [] OTHER -> ErrText(StatusMessage(r.status))

\* the request of call c settles with r; a 200 body is read
FetchSettles(c, r, jitter) ==
  /\ phase = "mounted"
  /\ c \in 1..Len(calls)
  /\ calls[c].pc = "fetch"
  /\ r \in ChatResponses
  /\ jitter \in Jitters
  /\ IF Classify(r, calls[c].attempt) = "retry"
     THEN /\ calls' = [calls EXCEPT ![c].pc = "sleep", ![c].seen = Append(@, r),
                         ![c].delay = BackoffDelay(calls[c].attempt, jitter)]
          /\ UNCHANGED << aiChatResponse, aiSearchResponse, isAIChatting, isAISearching >>
     ELSE Finish(c, r, Outcome(r, calls[c].attempt, calls[c].prompt))
  /\ UNCHANGED << phase, settingsVars, wallVars, weatherVars, aiChatQuery, aiSearchQuery >>

\* the backoff timer of call c fires: continue runs the finally block, the loop
\* goes to its next attempt or, with none left, the function returns nothing
BackoffElapsed(c) ==
  /\ phase = "mounted"
  /\ c \in 1..Len(calls)
  /\ calls[c].pc = "sleep"
  /\ RunFinally(calls[c])
  /\ IF calls[c].attempt + 1 < maxRetries
     THEN calls' = [calls EXCEPT ![c].attempt = @ + 1, ![c].pc = "fetch",
                                 ![c].delay = 0, ![c].requests = @ + 1]
     ELSE calls' = [calls EXCEPT ![c].attempt = @ + 1, ![c].pc = "fell",
                                 ![c].delay = 0]
  /\ UNCHANGED << phase, settingsVars, wallVars, weatherVars, aiChatQuery, aiSearchQuery,
                  aiChatResponse, aiSearchResponse >>

\* -------------------------------------------------------- specifications
InitTransient ==
  /\ edits = 0
  /\ aiChatQuery = <<>> /\ aiChatResponse = <<>> /\ isAIChatting = FALSE
  /\ aiSearchQuery = <<>> /\ aiSearchResponse = <<>> /\ isAISearching = FALSE
  /\ calls = <<>>
  /\ wallpaperPrompt = <<>> /\ isGeneratingWallpaper = FALSE
  /\ settingsMessage = <<>> /\ gens = <<>>

\* the page is about to load; localStorage holds what it holds
Init ==
  /\ phase = "boot"
  /\ store \in StoredValues
  /\ settings = <<>>
  /\ weather = <<>> /\ loadingWeather = FALSE /\ refreshes = <<>>
  /\ InitTransient

Edit == \E k \in EditableKeys : \E v \in EditValues(k) : EditSetting(k, v)
Preset == \E i \in 1..Len(WALLPAPERS) : SelectPreset(i)
TypeWallpaper == \E p \in Prompts : TypeWallpaperPrompt(p)
GenStep == \E g \in 1..Len(gens) : \E r \in ImageResponses : GenSettles(g, r)
TimerStep == \E i \in 1..Len(refreshes) : WeatherTimer(i)
GeoStep == \E i \in 1..Len(refreshes) : \E granted \in BOOLEAN : GeoSettles(i, granted)
WeatherStep == \E i \in 1..Len(refreshes) : \E r \in WeatherResponses : WeatherHttpSettles(i, r)

\* startup, the settings panel and the wallpaper generator.  A settings write
\* starts the weather refresh it calls for; the refresh's own later steps touch
\* neither the settings nor the store and are left to the weather specification.
Next ==
  \/ Startup
  \/ Edit
  \/ Preset
  \/ TypeWallpaper
  \/ handleGenerateWallpaper
  \/ GenStep

Spec == Init /\ [][Next]_vars

\* the page has loaded, with nothing stored or with the Pollinations key of an
\* earlier session, and the mock weather has arrived
InitChat ==
  /\ phase = "mounted"
  /\ settings \in { DEFAULT_SETTINGS,
                    Spread(DEFAULT_SETTINGS, "pollinationsApiKey", Str("pk")) }
  /\ store = Stored(JSONstringify(settings))
  /\ weather = << MockSnapshot(Str("F")) >>
  /\ loadingWeather = FALSE
  /\ refreshes = << [NewRefresh(DEFAULT_SETTINGS) EXCEPT
                       !.pc = "done", !.met = "timer",
                       !.result = << MockSnapshot(Str("F")) >>] >>
  /\ InitTransient

EditChatSetting ==
  \E v \in EditValues("pollinationsApiKey") : EditSetting("pollinationsApiKey", v)
ChatType == \E p \in Prompts : TypeChat(p)
SearchType == \E p \in Prompts : TypeSearch(p)
FetchStep == \E c \in 1..Len(calls) : \E r \in ChatResponses : \E j \in Jitters : FetchSettles(c, r, j)
BackoffStep == \E c \in 1..Len(calls) : BackoffElapsed(c)

\* the two AI widgets and the key they need
NextChat ==
  \/ EditChatSetting
  \/ ChatType
  \/ SearchType
  \/ handleAIChatSubmit
  \/ handleAISearchSubmit
  \/ FetchStep
  \/ BackoffStep

SpecChat == InitChat /\ [][NextChat]_vars

\* what a GenSettles step does to gens: a generation in flight is done, its
\* image applied or the wallpaper reverted
GenReturns ==
  \E g \in 1..Len(gens) : \E o \in {"applied", "reverted"} :
    /\ gens[g].pc = "http"
    /\ gens' = [gens EXCEPT ![g].pc = "done", ![g].outcome = o]

\* Spec, with every image request settling sooner or later: fetch resolves or
\* rejects, and the continuation of the await then runs.  The steps of Next
\* that satisfy GenReturns are the GenSettles steps, and one is possible
\* exactly when a generation is in flight.
SpecGenerate == Init /\ [][Next]_vars /\ WF_gens(GenReturns)

\* two prompts that can be told apart, and a blank one
MorePrompts == Prompts \cup { << "h", "i" >> }
ChatTypeMore == \E p \in MorePrompts : TypeChat(p)

\* the chat widget alone
NextRace ==
  \/ ChatTypeMore
  \/ handleAIChatSubmit
  \/ FetchStep
  \/ BackoffStep

SpecRace == InitChat /\ [][NextRace]_vars

\* startup, the settings panel and the weather refresher
NextWeather ==
  \/ Startup
  \/ Edit
  \/ TimerStep
  \/ GeoStep
  \/ WeatherStep

SpecWeather == Init /\ [][NextWeather]_vars

\* ---------------------------------------------------------------- claims
Busy(isSearch) == IF isSearch THEN isAISearching ELSE isAIChatting
Response(isSearch) == IF isSearch THEN aiSearchResponse ELSE aiChatResponse
InFlight(c) == calls[c].pc \in {"fetch", "sleep"}
Statuses(c) == [i \in 1..Len(calls[c].seen) |-> calls[c].seen[i].status]
Completes(c) == c \in 1..Len(calls) /\ InFlight(c) /\ calls'[c].pc = "done"
AloneOnWidget(c) ==
  \A d \in 1..Len(calls) : d # c => calls[d].isSearch # calls[c].isSearch

\* C1: a call that passed the credential check keeps its widget's busy flag
\* true for as long as it is in flight, backoff sleeps and retries included
\* (stated for a call that is the only one its widget has started).
C1_BusyWhileInFlight ==
  \A c \in 1..Len(calls) :
    (InFlight(c) /\ AloneOnWidget(c)) => Busy(calls[c].isSearch)

\* the delays of the two sleeps and the end of a 429, 429, 200 call
C2_Final ==
  \A c \in 1..Len(calls) :
    /\ (calls[c].pc = "sleep" /\ calls[c].attempt = 0) =>
         (calls[c].delay >= 1000 /\ calls[c].delay < 2000)
    /\ (calls[c].pc = "sleep" /\ calls[c].attempt = 1) =>
         (calls[c].delay >= 2000 /\ calls[c].delay < 3000)
    /\ (calls[c].pc = "done" /\ Statuses(c) = << "429", "429", "200" >>
          /\ calls[c].seen[3].body # "badjson") =>
         /\ calls[c].requests = 3
         /\ calls[c].published =
              << IF calls[c].seen[3].body = "content"
                 THEN << "answer to: " >> \o calls[c].prompt
                 ELSE << "No response received from AI." >> >>
         /\ calls[c].published[1][1] # "AI Error: "

\* a request after the first is sent by the step that ends a backoff sleep
C2_Sleeps ==
  \A c \in 1..Len(calls) :
    calls'[c].requests # calls[c].requests =>
      /\ calls[c].pc = "sleep"
      /\ calls'[c].requests = calls[c].requests + 1
      /\ Len(calls[c].seen) = calls[c].requests

\* C2: answered 429, 429, then 200 with a JSON body, the call has made exactly
\* 3 requests and has published the text of the third response (the content,
\* or the no-response sentinel when the body has none), never an error text;
\* a request after the first is only ever sent when a backoff sleep ends, and
\* the sleep before retry k lasts at least 2^k * 1000 ms and less than
\* 2^k * 1000 + 1000 ms.
C2_RetryThenSuccess == [](C2_Final) /\ [][C2_Sleeps]_vars

C2_Witness ==
  \E c \in 1..Len(calls) :
    /\ calls[c].pc = "done"
    /\ Statuses(c) = << "429", "429", "200" >>
    /\ calls[c].seen[3].body = "content"
    /\ Response(calls[c].isSearch) = << "answer to: ", " ", "h" >>

\* C3: a 401 response ends the call: it is the last response the call ever
\* sees, no request follows it (exactly 1 request when it answers the first),
\* and the outcome is the authentication-error text.
C3_AuthFailsAtOnce ==
  \A c \in 1..Len(calls) : \A i \in 1..Len(calls[c].seen) :
    calls[c].seen[i].status = "401" =>
      /\ i = Len(calls[c].seen)
      /\ calls[c].pc = "done"
      /\ calls[c].requests = i
      /\ calls[c].published =
           << << "AI Error: ", "Authentication failed. Check your API key." >> >>

C3_Witness ==
  \E c \in 1..Len(calls) :
    /\ Statuses(c) = << "401" >>
    /\ calls[c].requests = 1
    /\ Response(calls[c].isSearch) =
         << "AI Error: ", "Authentication failed. Check your API key." >>

C3_WitnessLater ==
  \E c \in 1..Len(calls) : Statuses(c) = << "429", "401" >> /\ calls[c].requests = 2

AllRateLimited(c) ==
  /\ calls[c].pc \in {"done", "fell"}
  /\ \A i \in 1..Len(calls[c].seen) : calls[c].seen[i].status = "429"

C5_OtherStatusFailsAtOnce ==
  \A c \in 1..Len(calls) : \A i \in 1..Len(calls[c].seen) :
    calls[c].seen[i].status \notin {"0", "200", "401", "429"} =>
      /\ i = Len(calls[c].seen)
      /\ calls[c].pc = "done"
      /\ calls[c].requests = i
      /\ calls[c].published =
           << << "AI Error: ", "API call failed with status: ",
                 calls[c].seen[i].status >> >>

C5_Witness ==
  \E c \in 1..Len(calls) :
    /\ Statuses(c) = << "429", "500" >>
    /\ calls[c].requests = 2
    /\ Response(calls[c].isSearch) =
         << "AI Error: ", "API call failed with status: ", "500" >>

NoKey == ~Truthy(Get(settings, "pollinationsApiKey"))

\* what a submit without a key does, in either widget
C6_Step ==
  /\ (handleAIChatSubmit /\ NoKey /\ Trim(aiChatQuery) # <<>>) =>
       /\ calls' = calls
       /\ isAIChatting' = isAIChatting /\ isAISearching' = isAISearching
       /\ aiChatResponse' = << "Error: Pollinations API Key not set in settings." >>
  /\ (handleAISearchSubmit /\ NoKey /\ Trim(aiSearchQuery) # <<>>) =>
       /\ calls' = calls
       /\ isAIChatting' = isAIChatting /\ isAISearching' = isAISearching
       /\ aiSearchResponse' = << "Error: Pollinations API Key not set in settings." >>

\* C6: a submit of a non-empty prompt while pollinationsApiKey is empty starts
\* no call and sends no request, leaves both busy flags as they are, and ends
\* with the widget's response field holding the key-not-set text.
C6_NoKeyNoCall == [][C6_Step]_vars

\* the key-not-set text is on display in a widget that is not busy, and in
\* the other widget while a call of an earlier key is still in flight there
C6_Witness ==
  /\ aiChatResponse = << "Error: Pollinations API Key not set in settings." >>
  /\ ~isAIChatting
  /\ aiChatQuery = <<>>

C6_WitnessSearch ==
  /\ aiSearchResponse = << "Error: Pollinations API Key not set in settings." >>
  /\ ~isAISearching
  /\ \E c \in 1..Len(calls) : InFlight(c)

\* the texts a call has published, by where the call is
C7_State ==
  \A c \in 1..Len(calls) :
    /\ calls[c].pc \in {"fetch", "sleep", "done"}
    /\ InFlight(c) => calls[c].published = <<>>
    /\ calls[c].pc = "done" => Len(calls[c].published) = 1

\* a call writes a response field in the step that ends it, and only then
C7_Step ==
  \A c \in 1..Len(calls) :
    /\ Completes(c) =>
         IF calls[c].isSearch
         THEN aiSearchResponse' = calls'[c].published[1]
         ELSE aiChatResponse' = calls'[c].published[1]
    /\ (calls'[c] # calls[c] /\ ~Completes(c)) =>
         (aiChatResponse' = aiChatResponse /\ aiSearchResponse' = aiSearchResponse)

\* C7: a call past the credential check publishes nothing while it is in
\* flight and exactly one text, the one it returns, when it ends; it never
\* ends without one.  The text is written to the response field of the
\* call's own widget in the step that ends the call, and in no other step
\* of the call.
C7_OneOutcome == [](C7_State) /\ [][C7_Step]_vars

\* a call ended by a thrown network error and one ended by an unparseable
\* 200 body, each with its one text
C7_Witness ==
  /\ \E c \in 1..Len(calls) :
       /\ calls[c].pc = "done" /\ Statuses(c) = << "0" >>
       /\ calls[c].published = << << "AI Error: ", "Failed to fetch" >> >>
  /\ \E c \in 1..Len(calls) :
       /\ calls[c].pc = "done" /\ calls[c].seen[Len(calls[c].seen)].body = "badjson"
       /\ Len(calls[c].published) = 1

OwnCap(c) == IF calls[c].isSearch THEN calls[c].capSearching ELSE calls[c].capChatting

\* what a step of a call does to the two busy flags
C8_Step ==
  \A c \in 1..Len(calls) :
    /\ (Completes(c) /\ ~OwnCap(c) /\ AloneOnWidget(c)) =>
         IF calls[c].isSearch THEN ~isAISearching' ELSE ~isAIChatting'
    /\ calls'[c] # calls[c] =>
         IF calls[c].isSearch THEN isAIChatting' = isAIChatting
         ELSE isAISearching' = isAISearching

\* C8: a widget's busy flag is set and cleared by that widget's calls alone,
\* whatever the other widget is doing: a call started while its own widget
\* was idle (and the only call of its widget) clears its widget's flag when
\* it ends, and no call changes the other widget's flag.
C8_IndependentBusy == [][C8_Step]_vars

\* C9: once the page is mounted the stored settings value is, in every
\* state, the serialization of the settings record in memory, and parses
\* back to that record: every mutation is written through in its own step.
C9_WriteThrough ==
  phase = "mounted" =>
    /\ store.present
    /\ store.text = JSONstringify(settings)
    /\ JSONparse(store.text) = [kind |-> "object", val |-> settings]

\* a panel edit, a generated wallpaper and a revert have all been written
C9_Witness ==
  /\ phase = "mounted"
  /\ edits >= 1
  /\ \E g \in 1..Len(gens) : gens[g].outcome = "applied"
  /\ \E g \in 1..Len(gens) : gens[g].outcome = "reverted"
  /\ JSONparse(store.text).val = settings
  /\ settings # DEFAULT_SETTINGS

Corrupted(saved) == saved.present /\ JSONparse(saved.text).kind # "object"

\* what startup makes of an absent or corrupted value
C10_Step ==
  (phase = "boot" /\ phase' # "boot" /\ (~store.present \/ Corrupted(store))) =>
    (phase' = "mounted" /\ settings' = DEFAULT_SETTINGS)

\* C10: startup with the stored settings value absent or corrupted loads
\* exactly DEFAULT_SETTINGS and does not fail.
C10_LoadFallsBack == [][C10_Step]_vars

\* the record a stored value that parses as an object parses to
ParsedStore == JSONparse(store.text).val
LoadsParsed ==
  /\ phase = "boot" /\ phase' # "boot"
  /\ store.present /\ store.text # <<>>
  /\ JSONparse(store.text).kind = "object"

\* C11: startup from a stored value that parses loads a record with all eleven
\* fields: a field present in the stored value has its stored value, a field
\* missing from it has its DEFAULT_SETTINGS value.
C11_PartialMerge ==
  [][LoadsParsed =>
       /\ phase' = "mounted"
       /\ \A i \in 1..Len(DEFAULT_SETTINGS) :
            LET k == DEFAULT_SETTINGS[i][1]
            IN /\ HasKey(settings', k)
               /\ Get(settings', k) = IF HasKey(ParsedStore, k)
                                       THEN Get(ParsedStore, k)
                                       ELSE DEFAULT_SETTINGS[i][2]]_vars

\* the fields a write to which starts no weather refresh
OtherKeys == { "userName", "userEmail", "pollinationsApiKey", "profilePictureUrl",
               "is24Hour", "wallpaper", "aiSearchModel" }
Started == Len(refreshes') - Len(refreshes)
LastStarted == refreshes'[Len(refreshes')]

\* C12: the step that mounts the page starts exactly one weather refresh; a
\* later step starts one exactly when it changes location, apiKey, unit or
\* isAutoLocation, and that refresh reads the record just written.  A step
\* that changes the record in no other field than userName, userEmail,
\* pollinationsApiKey, profilePictureUrl, is24Hour, wallpaper, aiSearchModel
\* (a panel edit, a preset, the generator's commit or revert) starts none.
C12_RefreshTriggers ==
  [][/\ (phase = "boot" /\ phase' = "mounted") =>
          (Started = 1 /\ LastStarted = NewRefresh(settings'))
     /\ (phase = "mounted" /\ WeatherDeps(settings') # WeatherDeps(settings)) =>
          (Started = 1 /\ LastStarted = NewRefresh(settings'))
     /\ (phase = "mounted" /\ WeatherDeps(settings') = WeatherDeps(settings)) =>
          Started = 0
     /\ (phase = "mounted"
           /\ \A k \in EditableKeys \cup OtherKeys :
                Get(settings', k) # Get(settings, k) => k \in OtherKeys) =>
          Started = 0
     /\ phase' = "crashed" => Started = 0]_vars

\* a unit change has started the second refresh, and a revert of the
\* wallpaper generator and a commit have started none
C12_Witness ==
  /\ Len(refreshes) = 2
  /\ refreshes[2].unit # refreshes[1].unit
  /\ \E g \in 1..Len(gens) : gens[g].outcome = "reverted"
  /\ \E g \in 1..Len(gens) : gens[g].outcome = "applied"

Keyless(i) == ~Truthy(refreshes[i].apiKey)
Ends(i) == i \in 1..Len(refreshes) /\ refreshes[i].pc # "done" /\ refreshes'[i].pc = "done"
Starts(i) == i = Len(refreshes') /\ Len(refreshes') = Len(refreshes) + 1

\* a refresh reads the apiKey of the record it was started for, and one
\* started without a key puts its own mock snapshot on display when it ends
C13_Step ==
  \A i \in 1..Len(refreshes') :
    /\ Starts(i) => refreshes'[i].apiKey = Get(settings', "apiKey")
    /\ (Ends(i) /\ Keyless(i)) =>
         /\ weather' = refreshes'[i].result
         /\ weather'[1].location = "Rochester, MN (Mock)"
         /\ refreshes'[i].requests = 0 /\ refreshes'[i].geoRequests = 0

\* what a refresh started without a key has done, at every moment
C13_State ==
  \A i \in 1..Len(refreshes) :
    Keyless(i) =>
      /\ refreshes[i].requests = 0
      /\ refreshes[i].geoRequests = 0
      /\ refreshes[i].pc \in {"timer", "done"}
      /\ refreshes[i].pc = "done" =>
           /\ Len(refreshes[i].result) = 1
           /\ refreshes[i].result[1].location = "Rochester, MN (Mock)"
           /\ refreshes[i].unit = Str("F") => refreshes[i].result[1].temp = Temp(72)
           /\ refreshes[i].unit = Str("C") => refreshes[i].result[1].temp = Temp(22)

\* C13: a weather refresh started while settings.apiKey is empty sends no
\* HTTP request and asks for no position, at any moment; the snapshot it
\* produces and displays is labelled "Rochester, MN (Mock)" (a label ending
\* in "(Mock)") and has temperature 72 for unit F and 22 for unit C.
C13_MockWeather == [](C13_State) /\ [][C13_Step]_vars

\* a keyless refresh for unit C has ended after one for unit F, with the
\* metric mock temperature on display
C13_Witness ==
  /\ Len(refreshes) = 2
  /\ Keyless(1) /\ refreshes[1].unit = Str("F") /\ refreshes[1].pc = "done"
  /\ Keyless(2) /\ refreshes[2].unit = Str("C") /\ refreshes[2].pc = "done"
  /\ weather = << [temp |-> Temp(22), condition |-> "Clear Sky",
                   location |-> "Rochester, MN (Mock)", icon |-> "01d",
                   humidity |-> 45, wind |-> 12] >>

Failures == { "denied", "reject", "status", "badbody" }

\* the step in which a keyed refresh meets a failure, and the steps after it
C14_Step ==
  \A i \in 1..Len(refreshes) :
    /\ (Ends(i) /\ ~Keyless(i) /\ refreshes'[i].met \in Failures) =>
         /\ weather' = << [temp |-> NoTemp, condition |-> "API Error",
                           location |-> "Check Key", icon |-> "unknown",
                           humidity |-> 0, wind |-> 0] >>
         /\ loadingWeather' = FALSE
         /\ refreshes'[i].requests = refreshes[i].requests
         /\ refreshes'[i].geoRequests = refreshes[i].geoRequests
    /\ refreshes[i].pc = "done" => refreshes'[i] = refreshes[i]

\* the requests of a keyed refresh
C14_State ==
  \A i \in 1..Len(refreshes) :
    /\ refreshes[i].requests <= 1
    /\ (refreshes[i].pc = "done" /\ refreshes[i].met = "denied") =>
         refreshes[i].requests = 0
    /\ (refreshes[i].pc = "done" /\ refreshes[i].met \in Failures) =>
         refreshes[i].result[1].temp = NoTemp

\* C14: a weather refresh started with a key that meets a refused position, a
\* rejected request, a non-success status or an unreadable body replaces the
\* whole snapshot by the error snapshot ('--', "API Error", "Check Key",
\* humidity 0, wind 0) and clears the loading flag in that step; it has sent
\* at most one HTTP request (none when the position was refused) and does
\* nothing more afterwards.
C14_WeatherError == [](C14_State) /\ [][C14_Step]_vars

\* the error snapshot has replaced a live one: a refused position after a
\* successful refresh
C14_Witness ==
  /\ Len(refreshes) = 2
  /\ refreshes[1].pc = "done" /\ refreshes[1].met = "ok"
  /\ refreshes[2].pc = "done" /\ refreshes[2].met = "denied"
  /\ refreshes[2].requests = 0
  /\ weather = << ErrorSnapshot >>
  /\ ~loadingWeather

C14_WitnessStatus ==
  \E i \in 1..Len(refreshes) :
    refreshes[i].met = "status" /\ refreshes[i].requests = 1 /\ weather = << ErrorSnapshot >>

\* C20: once every weather refresh that was started has ended, the snapshot
\* on display is the one of the refresh started last, the one computed from
\* the most recent settings.
C20_LatestRefreshWins ==
  (refreshes # <<>> /\ \A i \in 1..Len(refreshes) : refreshes[i].pc = "done") =>
    weather = refreshes[Len(refreshes)].result

PromptMissing == << "Please enter a description for the wallpaper." >>
KeyMissing == << "Pollinations API Key is required to generate images." >>

\* C15: handleGenerateWallpaper with an empty or whitespace-only prompt,
\* credential set or not, shows the prompt-missing message; with a non-empty
\* prompt and no credential it shows the key-missing message, a different
\* one; either way no generation is started and no request sent, the busy
\* flag is not touched, and the settings record and the store are unchanged.
C15_Preconditions ==
  [][/\ (handleGenerateWallpaper /\ Trim(wallpaperPrompt) = <<>>) =>
          /\ settingsMessage' = PromptMissing
          /\ gens' = gens /\ isGeneratingWallpaper' = isGeneratingWallpaper
          /\ settings' = settings /\ store' = store
     /\ (handleGenerateWallpaper /\ Trim(wallpaperPrompt) # <<>> /\ NoKey) =>
          /\ settingsMessage' = KeyMissing
          /\ settingsMessage' # PromptMissing
          /\ gens' = gens /\ isGeneratingWallpaper' = isGeneratingWallpaper
          /\ settings' = settings /\ store' = store]_vars

\* the prompt-missing message with no credential set and a blank prompt typed
C15_Witness ==
  /\ settingsMessage = PromptMissing
  /\ wallpaperPrompt = << " " >>
  /\ NoKey /\ phase = "mounted"
  /\ gens = <<>> /\ ~isGeneratingWallpaper

C15_WitnessKey ==
  /\ settingsMessage = KeyMissing
  /\ Trim(wallpaperPrompt) # <<>>
  /\ NoKey /\ phase = "mounted"
  /\ gens = <<>> /\ ~isGeneratingWallpaper

C15_WitnessPromptWithKey ==
  /\ settingsMessage = PromptMissing
  /\ ~NoKey /\ phase = "mounted"
  /\ gens = <<>>

Fails(g) == g \in 1..Len(gens) /\ gens[g].pc = "http" /\ gens'[g].outcome = "reverted"

\* C16: the step in which an image request fails leaves settings.wallpaper
\* equal to the first preset whatever it was, changes no other field of the
\* record, and leaves a record whose wallpaper already is the first preset
\* (as after an earlier failure) exactly as it was.
C16_RevertIdempotent ==
  [][\A g \in 1..Len(gens) :
       Fails(g) =>
         /\ Get(settings', "wallpaper") = Str("unsplash-mountain-lake")
         /\ \A k \in (EditableKeys \cup OtherKeys) \ {"wallpaper"} :
              /\ Get(settings', k) = Get(settings, k)
              /\ HasKey(settings', k) = HasKey(settings, k)
         /\ Get(settings, "wallpaper") = Str("unsplash-mountain-lake") =>
              settings' = settings]_vars

\* two generations have failed, with a panel edit or a preset in between or
\* before, and the first preset is the wallpaper
C16_Witness ==
  /\ Len(gens) = 2
  /\ gens[1].outcome = "reverted" /\ gens[2].outcome = "reverted"
  /\ edits = 1
  /\ settingsMessage[1] = "Image generation error. Check prompt and key. ("
  /\ Get(settings, "wallpaper") = Str(WALLPAPERS[1])

GenEnds(g) == g \in 1..Len(gens) /\ gens[g].pc = "http" /\ gens'[g].pc = "done"

\* C17: a generation past the precondition checks has sent exactly one POST
\* at every moment, while in flight and after; the step that ends it, on the
\* success path, the no-url path and the failure path, sends none and leaves
\* the busy flag false; every generation in flight ends, and a busy flag that
\* is true becomes false.
C17_OnePostBusyCleared ==
  /\ [](\A g \in 1..Len(gens) : gens[g].requests = 1)
  /\ [][\A g \in 1..Len(gens) :
          GenEnds(g) => (~isGeneratingWallpaper' /\ gens'[g].requests = 1)]_vars
  /\ \A g \in 1..MaxGens :
       (Len(gens) >= g /\ gens[g].pc = "http") ~> (Len(gens) >= g /\ gens[g].pc = "done")
  /\ (isGeneratingWallpaper ~> ~isGeneratingWallpaper)

\* a generation that failed and one whose image was applied have both ended
\* with the busy flag cleared
C17_Witness ==
  /\ Len(gens) = 2
  /\ gens[1].pc = "done" /\ gens[1].outcome = "reverted" /\ gens[1].requests = 1
  /\ gens[2].pc = "done" /\ gens[2].outcome = "applied" /\ gens[2].requests = 1
  /\ ~isGeneratingWallpaper
  /\ settingsMessage = << "Wallpaper successfully generated and applied!" >>

NothingChanges ==
  /\ aiChatQuery' = aiChatQuery /\ aiSearchQuery' = aiSearchQuery
  /\ aiChatResponse' = aiChatResponse /\ aiSearchResponse' = aiSearchResponse
  /\ isAIChatting' = isAIChatting /\ isAISearching' = isAISearching
  /\ calls' = calls
  /\ settings' = settings /\ store' = store
  /\ UNCHANGED vars

\* C18: a submit, in either widget, of a prompt that is empty or only white
\* space changes nothing: both query fields, both response fields, both busy
\* flags, the settings record and the store stay as they are, and no call is
\* started.
C18_EmptySubmitNoOp ==
  [][/\ (handleAIChatSubmit /\ Trim(aiChatQuery) = <<>>) => NothingChanges
     /\ (handleAISearchSubmit /\ Trim(aiSearchQuery) = <<>>) => NothingChanges]_vars

\* a blank prompt sits in the chat field with the key set, an earlier call
\* of the widget done and its answer still on display
C18_Witness ==
  /\ aiChatQuery = << " " >>
  /\ ~NoKey
  /\ Len(calls) = 1 /\ ~calls[1].isSearch /\ calls[1].pc = "done"
  /\ aiChatResponse = << "answer to: ", " ", "h" >>
  /\ ~isAIChatting

\* C19: once the page is mounted settings.wallpaper is a non-empty string,
\* whatever the store held at startup and whatever presets, generations and
\* edits followed.
C19_WallpaperNonEmpty ==
  phase = "mounted" => Truthy(Get(settings, "wallpaper"))

\* call c returns before the last attempt, from a closure that holds a true flag
EarlyExit(c) ==
  /\ Completes(c)
  /\ calls[c].attempt < maxRetries - 1
  /\ (calls[c].capChatting \/ calls[c].capSearching)

\* the busy flag of a widget goes from true to false in this step
Cleared(isSearch) ==
  IF isSearch THEN isAISearching /\ ~isAISearching' ELSE isAIChatting /\ ~isAIChatting'

\* C21: a call that returns inside the loop before the last attempt, with a
\* success or an error, from a closure in which a busy flag was true, leaves
\* the busy flag of its widget as it is in that step: true if no other call
\* cleared it before.  A flag is cleared by a step of a call of its own
\* widget whose finally condition is true, and by nothing else, so once every
\* call has returned a flag left true stays true until a later call of that
\* widget reaches a clearing exit.
C21_BusyLeftSet ==
  [][/\ \A c \in 1..Len(calls) :
          EarlyExit(c) =>
            /\ isAIChatting' = isAIChatting
            /\ isAISearching' = isAISearching
     /\ \A w \in BOOLEAN :
          Cleared(w) =>
            \E c \in 1..Len(calls) :
              /\ calls[c].isSearch = w
              /\ calls'[c] # calls[c]
              /\ (calls[c].attempt = maxRetries - 1
                    \/ (~calls[c].capChatting /\ ~calls[c].capSearching))]_vars

\* the search call, submitted while the chat call was in flight, returned its
\* answer on attempt 0; both calls have returned and isAISearching is true
C21_Witness ==
  /\ Len(calls) = 2
  /\ ~calls[1].isSearch /\ calls[1].pc = "done"
  /\ calls[2].isSearch /\ calls[2].pc = "done"
  /\ calls[2].capChatting /\ ~calls[2].capSearching
  /\ calls[2].attempt = 0 /\ Statuses(2) = << "200" >>
  /\ isAISearching /\ ~isAIChatting

\* the same on an error exit of attempt 1, within one widget
C21_WitnessError ==
  \E c \in 1..Len(calls) :
    /\ calls[c].pc = "done" /\ Statuses(c) = << "429", "401" >>
    /\ Busy(calls[c].isSearch)
    /\ \A d \in 1..Len(calls) : calls[d].pc = "done"

\* C22: handleAIChatSubmit has no busy guard: with a non-blank query and the
\* key set it starts a call for that query whether or not the widget is busy
\* or has calls in flight, and leaves those calls as they are.  Nor is a
\* response checked against later submissions: the step in which a call
\* returns puts that call's text in the response field even when a call of
\* the same widget that was started after it has returned already.
C22_NoGuardLastWriterWins ==
  [][/\ (handleAIChatSubmit /\ Trim(aiChatQuery) # <<>> /\ ~NoKey) =>
          /\ Len(calls') = Len(calls) + 1
          /\ calls'[Len(calls')].prompt = aiChatQuery
          /\ calls'[Len(calls')].pc = "fetch"
          /\ \A c \in 1..Len(calls) : calls'[c] = calls[c]
     /\ \A c \in 1..Len(calls) :
          (Completes(c) /\ ~calls[c].isSearch) =>
            aiChatResponse' = Outcome(calls'[c].seen[Len(calls'[c].seen)],
                                      calls[c].attempt, calls[c].prompt)]_vars

\* the first call was rate-limited once, which cleared isAIChatting and
\* enabled the button again; the second call, for another prompt, got its
\* answer first; then the first call got its answer, and that answer, to the
\* older prompt, is on display
C22_Witness ==
  /\ Len(calls) = 2
  /\ ~calls[1].isSearch /\ ~calls[2].isSearch
  /\ calls[1].pc = "done" /\ calls[2].pc = "done"
  /\ calls[1].prompt = << " ", "h" >> /\ calls[2].prompt = << "h", "i" >>
  /\ Statuses(1) = << "429", "200" >> /\ calls[1].seen[2].body = "content"
  /\ ~calls[2].capChatting
  /\ Statuses(2) = << "200" >> /\ calls[2].seen[1].body = "content"
  /\ calls[2].published = << << "answer to: ", "h", "i" >> >>
  /\ aiChatResponse = << "answer to: ", " ", "h" >>

====
